---- MODULE Spec2Model ----
(***************************************************************************)
(* Freedom Clock (Heltec Vision Master E213): one wake cycle of setup(),   *)
(* the MQTT callback, the retained (RTC) state, and the inflation-aware    *)
(* longevity simulation, with IEEE-754 binary32 arithmetic modelled on     *)
(* integers (round to nearest, ties to even).                              *)
(***************************************************************************)
EXTENDS Integers, Sequences, FiniteSets, TLC

(***************************************************************************)
(* binary32 values.  A finite value is s * m * 2^e with 0 <= m < 2^24 and  *)
(* e >= -149 (m < 2^23 only when e = -149: subnormal).  Zero is kept       *)
(* unsigned: the program never distinguishes -0.0 from 0.0.                *)
(***************************************************************************)
MantBits == 24
MinExp == -149
MaxExp == 104
Two23 == 8388608
Two24 == 16777216

Pow2(n) == 2 ^ n

\* number of bits of n, 0 <= n < 2^31
BitLen(n) ==
  IF n < 32768
  THEN
    IF n < 128
    THEN
      IF n < 8
      THEN
        IF n < 2 THEN (IF n < 1 THEN 0 ELSE 1) ELSE (IF n < 4 THEN 2 ELSE 3)
      ELSE
        IF n < 32 THEN (IF n < 16 THEN 4 ELSE 5) ELSE (IF n < 64 THEN 6 ELSE 7)
    ELSE
      IF n < 2048
      THEN
        IF n < 512 THEN (IF n < 256 THEN 8 ELSE 9) ELSE (IF n < 1024 THEN 10 ELSE 11)
      ELSE
        IF n < 8192 THEN (IF n < 4096 THEN 12 ELSE 13) ELSE (IF n < 16384 THEN 14 ELSE 15)
  ELSE
    IF n < 8388608
    THEN
      IF n < 524288
      THEN
        IF n < 131072 THEN (IF n < 65536 THEN 16 ELSE 17) ELSE (IF n < 262144 THEN 18 ELSE 19)
      ELSE
        IF n < 2097152 THEN (IF n < 1048576 THEN 20 ELSE 21) ELSE (IF n < 4194304 THEN 22 ELSE 23)
    ELSE
      IF n < 134217728
      THEN
        IF n < 33554432 THEN (IF n < 16777216 THEN 24 ELSE 25) ELSE (IF n < 67108864 THEN 26 ELSE 27)
      ELSE
        IF n < 536870912 THEN (IF n < 268435456 THEN 28 ELSE 29) ELSE (IF n < 1073741824 THEN 30 ELSE 31)

FZero == [k |-> "fin", s |-> 0, m |-> 0, e |-> MinExp]
FInf(sg) == [k |-> "inf", s |-> sg, m |-> 0, e |-> 0]
FNaN == [k |-> "nan", s |-> 0, m |-> 0, e |-> 0]
Fin(sg, mm, ee) == IF mm = 0 THEN FZero ELSE [k |-> "fin", s |-> sg, m |-> mm, e |-> ee]

IsZero(x) == x.k = "fin" /\ x.m = 0
IsNaN(x) == x.k = "nan"

\* the rounded mantissa q (at most 2^24) at exponent e, or infinity
FPack(sg, q, e) ==
  IF q = Two24
  THEN (IF e + 1 > MaxExp THEN FInf(sg) ELSE Fin(sg, Two23, e + 1))
  ELSE (IF e > MaxExp THEN FInf(sg) ELSE Fin(sg, q, e))

\* round to nearest, ties to even: q + (r + f) / (2 * half) goes up
FRoundUp(q, r, half, sticky) ==
  r > half \/ (r = half /\ (sticky \/ q % 2 = 1))

\* the number of low bits of an nb-bit mantissa at exponent E to drop
FShift(nb, E) ==
  IF E + nb - MantBits < MinExp THEN MinExp - E ELSE nb - MantBits

FRoundSh(sg, M, E, sticky, sh) ==
  IF sh <= 0 THEN Fin(sg, M * Pow2(-sh), E + sh)
  ELSE IF sh > 30 THEN FZero
  ELSE FPack(sg,
             M \div Pow2(sh)
               + (IF FRoundUp(M \div Pow2(sh), M % Pow2(sh), Pow2(sh - 1), sticky)
                  THEN 1 ELSE 0),
             E + sh)

\* Round the exact magnitude (M + f) * 2^E, 0 <= f < 1, f > 0 iff sticky, to
\* the nearest binary32 (ties to even); M carries at least 26 bits whenever
\* sticky is set.
FRound(sg, M, E, sticky) ==
  IF M = 0 THEN FZero ELSE FRoundSh(sg, M, E, sticky, FShift(BitLen(M), E))

\* A finite non-zero value with its mantissa shifted up by d bits to 24 bits
\* (the exponent may then lie below MinExp; used only inside an operation).
FNormBy(x, d) == [m |-> x.m * Pow2(d), e |-> x.e - d]
FNorm(x) == FNormBy(x, MantBits - BitLen(x.m))

\* int -> float conversion, for |n| < 2^24 (exact)
FromInt(n) ==
  IF n = 0 THEN FZero
  ELSE IF n < 0 THEN FRound(1, -n, 0, FALSE) ELSE FRound(0, n, 0, FALSE)

FNeg(x) == IF x.k = "nan" \/ IsZero(x) THEN x ELSE [x EXCEPT !.s = 1 - x.s]

NormLt(na, nb) == na.e < nb.e \/ (na.e = nb.e /\ na.m < nb.m)

\* |a| < |b| for finite a, b
MagLt(a, b) ==
  IF a.m = 0 THEN b.m /= 0
  ELSE IF b.m = 0 THEN FALSE
  ELSE NormLt(FNorm(a), FNorm(b))

\* a < b
FLt(a, b) ==
  IF IsNaN(a) \/ IsNaN(b) THEN FALSE
  ELSE IF a.k = "inf" THEN a.s = 1 /\ ~(b.k = "inf" /\ b.s = 1)
  ELSE IF b.k = "inf" THEN b.s = 0
  ELSE IF IsZero(a) THEN b.m /= 0 /\ b.s = 0
  ELSE IF IsZero(b) THEN a.s = 1
  ELSE IF a.s /= b.s THEN a.s = 1
  ELSE IF a.s = 0 THEN MagLt(a, b) ELSE MagLt(b, a)

FEq(a, b) == ~IsNaN(a) /\ ~IsNaN(b) /\ a = b
FLe(a, b) == FLt(a, b) \/ FEq(a, b)
FGe(a, b) == FLe(b, a)

\* Mb plus or minus (Ms + f), 0 <= f < 1, f > 0 iff st, at exponent e
AddAligned(sg, same, Mb, Ms, e, st) ==
  IF same THEN FRound(sg, Mb + Ms, e, st)
  ELSE FRound(sg, Mb - Ms - (IF st THEN 1 ELSE 0), e, st)

\* normalized operands, |nb| >= |ns|: three guard bits, the smaller one
\* shifted down to the exponent of the larger
AddNorm(sb, ss, nb, ns) ==
  AddAligned(sb, sb = ss, nb.m * 8,
             IF nb.e - ns.e >= 27 THEN 0 ELSE (ns.m * 8) \div Pow2(nb.e - ns.e),
             nb.e - 3,
             IF nb.e - ns.e >= 27 THEN TRUE
             ELSE (ns.m * 8) % Pow2(nb.e - ns.e) /= 0)

AddOrd(big, sml) == AddNorm(big.s, sml.s, FNorm(big), FNorm(sml))

\* finite a + finite b
FinAdd(a, b) ==
  IF a.m = 0 THEN b
  ELSE IF b.m = 0 THEN a
  ELSE IF MagLt(a, b) THEN AddOrd(b, a) ELSE AddOrd(a, b)

FAdd(a, b) ==
  IF IsNaN(a) \/ IsNaN(b) THEN FNaN
  ELSE IF a.k = "inf" THEN (IF b.k = "inf" /\ b.s /= a.s THEN FNaN ELSE a)
  ELSE IF b.k = "inf" THEN b
  ELSE FinAdd(a, b)

FSub(a, b) == FAdd(a, FNeg(b))

\* the 48-bit product hi0 * 2^24 + lo24 (lo24 < 2^25) rounded from 30 bits
MulHiLo(sg, e, hi0, lo24) ==
  FRound(sg, (hi0 + lo24 \div Two24) * 64 + (lo24 % Two24) \div 262144, e,
         (lo24 % Two24) % 262144 /= 0)

MulSum(sg, e, hh, mid, ll) ==
  MulHiLo(sg, e, hh + mid \div 4096, (mid % 4096) * 4096 + ll)

\* 24-bit mantissas multiplied in 12-bit halves
MulNorm(sg, na, nb) ==
  MulSum(sg, na.e + nb.e + 18,
         (na.m \div 4096) * (nb.m \div 4096),
         (na.m \div 4096) * (nb.m % 4096) + (na.m % 4096) * (nb.m \div 4096),
         (na.m % 4096) * (nb.m % 4096))

\* a * b
FMul(a, b) ==
  IF IsNaN(a) \/ IsNaN(b) THEN FNaN
  ELSE IF a.k = "inf" \/ b.k = "inf"
       THEN (IF IsZero(a) \/ IsZero(b) THEN FNaN ELSE FInf((a.s + b.s) % 2))
  ELSE IF a.m = 0 \/ b.m = 0 THEN FZero
  ELSE MulNorm((a.s + b.s) % 2, FNorm(a), FNorm(b))

\* long division: quotient and remainder <<q, r>> extended by n more
\* quotient bits (r < d <= 2^24, n <= 7)
DivChunk(qr, d, n) ==
  <<qr[1] * Pow2(n) + (qr[2] * Pow2(n)) \div d, (qr[2] * Pow2(n)) % d>>

\* 26 more quotient bits
DivBits26(q, r, d) ==
  DivChunk(DivChunk(DivChunk(DivChunk(<<q, r>>, d, 7), d, 7), d, 6), d, 6)

DivPack(sg, e, qr) == FRound(sg, qr[1], e, qr[2] /= 0)

DivNorm(sg, na, nb) ==
  DivPack(sg, na.e - nb.e - 26, DivBits26(na.m \div nb.m, na.m % nb.m, nb.m))

\* a / b
FDiv(a, b) ==
  IF IsNaN(a) \/ IsNaN(b) THEN FNaN
  ELSE IF a.k = "inf" THEN (IF b.k = "inf" THEN FNaN ELSE FInf((a.s + b.s) % 2))
  ELSE IF b.k = "inf" THEN FZero
  ELSE IF b.m = 0 THEN (IF a.m = 0 THEN FNaN ELSE FInf((a.s + b.s) % 2))
  ELSE IF a.m = 0 THEN FZero
  ELSE DivNorm((a.s + b.s) % 2, FNorm(a), FNorm(b))

(***************************************************************************)
(* Texts.  A C string is the sequence of its characters (one-character     *)
(* strings) without the terminating NUL.                                   *)
(***************************************************************************)
NUL == "\\0"
Digits == {"0", "1", "2", "3", "4", "5", "6", "7", "8", "9"}

DigitVal(c) ==
  CASE c = "0" -> 0 [] c = "1" -> 1 [] c = "2" -> 2 [] c = "3" -> 3
    [] c = "4" -> 4 [] c = "5" -> 5 [] c = "6" -> 6 [] c = "7" -> 7
    [] c = "8" -> 8 [] c = "9" -> 9

Take(t, n) == SubSeq(t, 1, IF n < Len(t) THEN n ELSE Len(t))
Drop(t, n) == SubSeq(t, n + 1, Len(t))

\* the bytes of a buffer read as a C string: everything before the first NUL
RECURSIVE CStr(_)
CStr(t) ==
  IF t = <<>> \/ Head(t) = NUL THEN <<>> ELSE <<Head(t)>> \o CStr(Tail(t))

\* longest prefix of t made of characters of S
RECURSIVE Span(_, _)
Span(t, S) ==
  IF t = <<>> \/ Head(t) \notin S THEN <<>> ELSE <<Head(t)>> \o Span(Tail(t), S)

RECURSIVE DigitsVal(_, _)
DigitsVal(t, acc) ==
  IF t = <<>> THEN acc ELSE DigitsVal(Tail(t), 10 * acc + DigitVal(Head(t)))

\* the binary32 nearest to N / D, for 0 <= N < 2^24 and D a power of two or
\* of ten below 2^30: both are binary32 values, so the division rounds once
RatRound(sg, N, D) ==
  FDiv(FRound(sg, N, 0, FALSE), FRound(0, D, 0, FALSE))

\* strtof on a C string over the decimal grammar: blanks, a sign, digits with
\* an optional point, or "inf"/"nan"; [ok |-> FALSE] when no conversion is
\* performed (end == s).  Exact for texts of at most 7 significant digits.
strtof(t) ==
  LET t1 == Drop(t, Len(Span(t, {" "})))
      neg == t1 /= <<>> /\ Head(t1) = "-"
      t2 == IF t1 /= <<>> /\ Head(t1) \in {"-", "+"} THEN Tail(t1) ELSE t1
      sg == IF neg THEN 1 ELSE 0
      ip == Span(t2, Digits)
      t3 == Drop(t2, Len(ip))
      fp == IF t3 /= <<>> /\ Head(t3) = "." THEN Span(Tail(t3), Digits) ELSE <<>>
  IN IF Take(t2, 3) = <<"n", "a", "n">> THEN [ok |-> TRUE, v |-> FNaN]
     ELSE IF Take(t2, 3) = <<"i", "n", "f">> THEN [ok |-> TRUE, v |-> FInf(sg)]
     ELSE IF Len(ip) + Len(fp) = 0 THEN [ok |-> FALSE, v |-> FZero]
     ELSE [ok |-> TRUE, v |-> RatRound(sg, DigitsVal(ip \o fp, 0), 10 ^ Len(fp))]

clampNonNegative(v) == IF FLt(v, FZero) THEN FZero ELSE v

\* a variant that reads a text without a number as 1
parseFloatDefaultOne(t) ==
  IF t = <<>> THEN FZero
  ELSE LET r == strtof(t)
       IN IF ~r.ok THEN FromInt(1) ELSE clampNonNegative(r.v)

parseFloatSafe(t) ==
  IF t = <<>> THEN FZero
  ELSE LET r == strtof(t)
       IN IF ~r.ok THEN FZero ELSE clampNonNegative(r.v)

\* safeCopy into a 16-byte buffer, read back as a C string
BufSize == 16
safeCopy(src) ==
  LET n == IF Len(src) < BufSize - 1 THEN Len(src) ELSE BufSize - 1
  IN CStr(Take(src, n))

\* a variant that copies one byte less
strncpyShort(src) == Take(src, BufSize - 2)

\* strncpy(dst, src, sizeof(dst) - 1); dst[sizeof(dst) - 1] = '\0'
strncpyLast(src) == Take(src, BufSize - 1)

\* (int) / (long) of a finite value in range: truncation toward zero
FTrunc(x) ==
  LET a == IF x.e >= 0 THEN x.m * Pow2(x.e)
           ELSE IF -x.e > 30 THEN 0 ELSE x.m \div Pow2(-x.e)
  IN IF x.s = 1 THEN -a ELSE a

\* the values a float -> long cast can produce; the cast of a NaN, an
\* infinity or a value outside the range of long is undefined behaviour
LongCast(x) ==
  IF x.k = "fin" /\ x.e <= 6 THEN {FTrunc(x)}
  ELSE {-2147483647, 0, 2147483647}

(***************************************************************************)
(* Program constants                                                       *)
(***************************************************************************)
MONTHLY_EXP_USD == FromInt(10000)
INFLATION_ANNUAL == RatRound(0, 2, 100)
SLEEP_MINUTES == 60
TOPIC_PRICE_USD == "home/bitcoin/price/usd"
TOPIC_BALANCE_BTC == "home/bitcoin/wallets/total_btc"
ADC_MAX == FromInt(4095)
ADC_REF_V == RatRound(0, 33, 10)
VBAT_SCALE == RatRound(0, 49, 10)
Sentinel == <<"-", "-">>
NoTimestamp == "--"
MAX_DAYS == 365 * 200
WifiTimeoutMs == 15000
WifiDelayMs == 250
MqttTimeoutMs == 5000
MqttDelayMs == 500
WindowMs == 4000
PollDelayMs == 10

FOne == FromInt(1)
FHalf == RatRound(0, 1, 2)

(***************************************************************************)
(* Battery                                                                 *)
(***************************************************************************)
NUM_POINTS == 8
voltTable ==
  <<RatRound(0, 320, 100), RatRound(0, 330, 100), RatRound(0, 360, 100),
    RatRound(0, 375, 100), RatRound(0, 385, 100), RatRound(0, 395, 100),
    RatRound(0, 405, 100), RatRound(0, 415, 100)>>
socTable == <<0, 2, 25, 50, 70, 90, 97, 100>>

\* a variant that casts without adding 0.5f
socTruncate(soc) ==
  FTrunc(IF FLt(soc, FZero) THEN FZero
         ELSE IF FLt(FromInt(100), soc) THEN FromInt(100) ELSE soc)

\* if (soc < 0) soc = 0; if (soc > 100) soc = 100; return (int)(soc + 0.5f)
socRound(soc) ==
  FTrunc(FAdd(IF FLt(soc, FZero) THEN FZero
              ELSE IF FLt(FromInt(100), soc) THEN FromInt(100) ELSE soc,
              FHalf))

\* soc1 + t * (soc2 - soc1) with t = (v - v1) / (v2 - v1)
socInterp(v, v1, v2, soc1, soc2) ==
  socRound(FAdd(FromInt(soc1),
                FMul(FDiv(FSub(v, v1), FSub(v2, v1)), FromInt(soc2 - soc1))))

\* the interpolation of segment i (1-based), rounded and cast to int
socSegment(v, i) ==
  socInterp(v, voltTable[i], voltTable[i + 1], socTable[i], socTable[i + 1])

\* if (v >= voltTable[NUM_POINTS - 1]) return socTable[NUM_POINTS - 1];
aboveTableNever(v) == FALSE
aboveTable(v) == FGe(v, voltTable[NUM_POINTS])

\* a variant that reports a voltage at or below the table as unknown
batteryPercentUnknownLow(v) ==
  IF FLe(v, voltTable[1]) THEN -1
  ELSE IF aboveTable(v) THEN socTable[NUM_POINTS]
  ELSE LET hits == {i \in 1..(NUM_POINTS - 1) :
                      FGe(v, voltTable[i]) /\ FLe(v, voltTable[i + 1])}
       IN IF hits = {} THEN 0
          ELSE socSegment(v, CHOOSE i \in hits : \A j \in hits : i <= j)

batteryPercentFromVoltage(v) ==
  IF FLe(v, voltTable[1]) THEN socTable[1]
  ELSE IF aboveTable(v) THEN socTable[NUM_POINTS]
  ELSE LET hits == {i \in 1..(NUM_POINTS - 1) :
                      FGe(v, voltTable[i]) /\ FLe(v, voltTable[i + 1])}
       IN IF hits = {} THEN 0
          ELSE socSegment(v, CHOOSE i \in hits : \A j \in hits : i <= j)

\* the voltage computed from one raw ADC sample
voltageFromRaw(raw) ==
  FMul(FMul(FDiv(FromInt(raw), ADC_MAX), ADC_REF_V), VBAT_SCALE)

(***************************************************************************)
(* Longevity simulation, pure parts                                        *)
(***************************************************************************)
\* powf(base, 1.0f / 365.0f) for the bases the program can pass
powf365(base) ==
  CASE IsNaN(base) -> FNaN
    [] base = FOne -> FOne
    [] base = FAdd(FOne, INFLATION_ANNUAL) -> Fin(0, 8389063, -23)
    [] base.k = "inf" /\ base.s = 0 -> base

yearsOfDays(d) == d \div 365
monthsOfDays(d) == (d % 365) \div 30
weeksOfDays(d) == ((d % 365) % 30) \div 7

(***************************************************************************)
(* Inputs of the environment                                               *)
(***************************************************************************)
\* payloads the broker can deliver on the price topic and on the balance
\* topic (raw bytes; the first one has length 0, the last price payload is
\* longer than the buffer)
PricePayloads ==
  {<<>>,
   <<"1", "2", "0", "0">>,
   <<"a", "b", "c">>,
   <<"7", NUL, "9">>,
   <<"1", "2", "0", "0", ".", "5", "0", " ", "U", "S", "D", "/", "B", "T", "C",
     " ", "n", "o", "w">>}
BalancePayloads ==
  {<<>>, <<"2">>, <<"-", "5">>}
OtherTopic == "home/other"
Messages ==
  ({TOPIC_PRICE_USD, OtherTopic} \X PricePayloads)
    \cup ({TOPIC_BALANCE_BTC} \X BalancePayloads)

RawSamples == {0, 950, 4095}
Timestamps == {"2026-11-01 08:00"}
\* time a blocking library call can take, in ms
ConnectMs == {1500, 2500}
LoopMs == {990, 1990}

(***************************************************************************)
(* State                                                                   *)
(***************************************************************************)
VARIABLES
  pc,                  \* position in setup() / goToSleep()
  lastPriceUsd, lastBalanceBtc, lastBatteryVoltage, lastBatteryPercent,
  gotPrice, gotBalance, priceUsdBuf, balanceBtcBuf,
  einkPower, adcCtrl, timerArmed, rawAdc,
  vbat, pct, wifiOK, timestamp, mqttOK, mqttConn, elapsed,
  priceStr, balanceStr, priceUsd, balanceBtc,
  usdWealth, monthlyExpenseToday, inflationAnnual,
  dailyMul, remaining, dailyExpense, days, outYears, outMonths, outWeeks,
  frame,
  \* history of the current wake cycle
  trace, netlog, polls, connects, subscribed, frames,
  wakePrice, wakeBalance, msgPrice, msgBalance,
  timeQuery,           \* outcome of the time query of this cycle
  silentRun,           \* completed cycles since power-on, all without a
                       \* message on either topic; Heard after a message
  heardPrice, heardBalance  \* last payload delivered on each topic, in
                       \* this cycle or an earlier one

rtc == <<lastPriceUsd, lastBalanceBtc, lastBatteryVoltage, lastBatteryPercent>>
inbox == <<gotPrice, gotBalance, priceUsdBuf, balanceBtcBuf>>
pins == <<einkPower, adcCtrl, timerArmed>>
locals == <<vbat, pct, wifiOK, timestamp, mqttOK, priceStr, balanceStr,
            priceUsd, balanceBtc>>
simIn == <<usdWealth, monthlyExpenseToday, inflationAnnual>>
simSt == <<dailyMul, remaining, dailyExpense, days, outYears, outMonths, outWeeks>>
hist == <<trace, netlog, polls, connects, subscribed, frames,
          wakePrice, wakeBalance, msgPrice, msgBalance, timeQuery, silentRun,
          heardPrice, heardBalance>>
vars == <<pc, rtc, inbox, pins, rawAdc, locals, mqttConn, elapsed, simIn, simSt,
          frame, hist>>

\* no message delivered yet / nothing drawn yet
NoMsg == <<"none">>
\* a message has been delivered on one of the two topics since power-on
Heard == -1
\* the count of silent cycles stops at MaxCycles
MaxCycles == 3
CountCycle(n) == IF n < MaxCycles THEN n + 1 ELSE n
NoFrame ==
  [years |-> -1, months |-> -1, weeks |-> -1, price |-> -1,
   battery |-> <<>>, timestamp |-> ""]

\* the values of everything outside RTC memory right after a reset
FreshRam ==
  /\ gotPrice = FALSE /\ gotBalance = FALSE
  /\ priceUsdBuf = <<>> /\ balanceBtcBuf = <<>>
  /\ einkPower = FALSE /\ adcCtrl = FALSE /\ timerArmed = FALSE
  /\ rawAdc = 0
  /\ vbat = FZero /\ pct = 0 /\ wifiOK = FALSE /\ timestamp = NoTimestamp
  /\ mqttOK = FALSE /\ mqttConn = FALSE /\ elapsed = 0
  /\ priceStr = <<>> /\ balanceStr = <<>>
  /\ priceUsd = FZero /\ balanceBtc = FZero
  /\ dailyMul = FZero /\ remaining = FZero /\ dailyExpense = FZero
  /\ days = 0
  /\ frame = NoFrame
  /\ trace = <<>> /\ netlog = <<>> /\ polls = 0 /\ connects = 0
  /\ subscribed = {} /\ frames = 0
  /\ msgPrice = NoMsg /\ msgBalance = NoMsg
  /\ timeQuery = "none"

Init ==
  /\ pc = "boot"
  /\ lastPriceUsd = Sentinel /\ lastBalanceBtc = Sentinel
  /\ lastBatteryVoltage = FZero /\ lastBatteryPercent = -1
  /\ wakePrice = Sentinel /\ wakeBalance = Sentinel
  /\ FreshRam
  /\ usdWealth = FZero /\ monthlyExpenseToday = FZero /\ inflationAnnual = FZero
  /\ outYears = 0 /\ outMonths = 0 /\ outWeeks = 0
  /\ silentRun = 0
  /\ heardPrice = NoMsg /\ heardBalance = NoMsg

Log(l, x) == IF \E i \in 1..Len(l) : l[i] = x THEN l ELSE Append(l, x)

\* The history counters stop at MaxCount.  A cycle makes at most three
\* connection attempts and four polls, so no reachable state is at the stop.
MaxCount == 6
Count(n) == IF n < MaxCount THEN n + 1 ELSE n

(***************************************************************************)
(* Decisions of setup() and of computeLongevityWithInflation               *)
(***************************************************************************)
\* static volatile bool gotPrice = false / gotBalance = false: outside RTC
\* memory, so every reset reloads the initializer
bootFlagRetained(old) == old
bootFlag(old) == FALSE

\* millis() - start after a further d ms
advanceStuck(e, d) == e
advance(e, d) == e + d

\* if (wifiOK) mqttOK = connectMQTT();
afterResetAlways(w) == "mqtt_begin"
afterReset(w) == IF w THEN "mqtt_begin" ELSE "fallback"

\* if (gotPrice && gotBalance) break;
windowDoneEither(gp, gb) == gp \/ gb
windowDone(gp, gb) == gp /\ gb

\* got ? buf : last
selectStrFresh(got, buf, last) == buf
selectStr(got, buf, last) == IF got THEN buf ELSE last

\* if (got) { strncpy(last, buf, sizeof(last) - 1); last[15] = '\0'; }
persistStrAlways(got, buf, last) == strncpyLast(buf)
persistStr(got, buf, last) == IF got THEN strncpyLast(buf) ELSE last

\* if (usdWealth <= 0.0f || monthlyExpenseToday <= 0.0f) return;
earlyReturnWealthOnly(w, x) == FLe(w, FZero)
earlyReturn(w, x) == FLe(w, FZero) \/ FLe(x, FZero)

\* while (days < MAX_DAYS)
loopGuardInclusive(d) == d <= MAX_DAYS
loopGuard(d) == d < MAX_DAYS


(***************************************************************************)
(* setup(), first part: display power, battery, WiFi, time                 *)
(***************************************************************************)
\* pinMode / digitalWrite(PIN_EINK_POWER, HIGH); delay(100)
PowerOnDisplay ==
  /\ pc = "boot"
  /\ einkPower' = TRUE
  /\ trace' = Append(trace, "PowerOnDisplay")
  /\ pc' = "display_begin"
  /\ UNCHANGED <<rtc, inbox, adcCtrl, timerArmed, rawAdc, locals, mqttConn, elapsed,
                 simIn, simSt, frame, netlog, polls, connects, subscribed,
                 frames, wakePrice, wakeBalance, msgPrice, msgBalance,
                 timeQuery, silentRun, heardPrice, heardBalance>>

\* display.begin()
DisplayBegin ==
  /\ pc = "display_begin"
  /\ pc' = "battery"
  /\ UNCHANGED <<rtc, inbox, pins, rawAdc, locals, mqttConn, elapsed, simIn,
                 simSt, frame, hist>>

\* readBatteryVoltage: digitalWrite(PIN_ADC_CTRL, HIGH); delay(5)
BatteryGateOn ==
  /\ pc = "battery"
  /\ adcCtrl' = TRUE
  /\ trace' = Append(trace, "MeasureBattery")
  /\ pc' = "adc_sample"
  /\ UNCHANGED <<rtc, inbox, einkPower, timerArmed, rawAdc, locals, mqttConn,
                 elapsed, simIn, simSt, frame, netlog, polls, connects,
                 subscribed, frames, wakePrice, wakeBalance, msgPrice,
                 msgBalance,
                 timeQuery, silentRun, heardPrice, heardBalance>>

\* int raw = analogRead(PIN_BAT_ADC)
BatterySample ==
  /\ pc = "adc_sample"
  /\ rawAdc' \in RawSamples
  /\ pc' = "adc_off"
  /\ UNCHANGED <<rtc, inbox, pins, locals, mqttConn, elapsed, simIn, simSt,
                 frame, hist>>

\* digitalWrite(PIN_ADC_CTRL, LOW), the voltage, and back in setup the
\* percent and the two RTC copies
BatteryGateOff ==
  /\ pc = "adc_off"
  /\ adcCtrl' = FALSE
  /\ LET v == voltageFromRaw(rawAdc)
     IN /\ vbat' = v
        /\ pct' = batteryPercentFromVoltage(v)
        /\ lastBatteryVoltage' = v
        /\ lastBatteryPercent' = batteryPercentFromVoltage(v)
  /\ pc' = "wifi_begin"
  /\ UNCHANGED <<lastPriceUsd, lastBalanceBtc, inbox, einkPower, timerArmed,
                 rawAdc, wifiOK, timestamp, mqttOK, priceStr, balanceStr,
                 priceUsd, balanceBtc, mqttConn, elapsed, simIn, simSt, frame,
                 hist>>

\* connectWiFi: WiFi.mode, WiFi.begin, start = millis()
WifiBegin ==
  /\ pc = "wifi_begin"
  /\ elapsed' = 0
  /\ trace' = Append(trace, "AcquireNetwork")
  /\ netlog' = Log(netlog, "wifi")
  /\ pc' = "wifi_wait"
  /\ UNCHANGED <<rtc, inbox, pins, rawAdc, locals, mqttConn, simIn, simSt, frame,
                 polls, connects, subscribed, frames, wakePrice, wakeBalance,
                 msgPrice, msgBalance,
                 timeQuery, silentRun, heardPrice, heardBalance>>

\* one evaluation of the while condition of connectWiFi and, if it holds,
\* the delay(250)
WifiWait ==
  /\ pc = "wifi_wait"
  /\ \E connected \in BOOLEAN :
       IF ~connected /\ elapsed < WifiTimeoutMs
       THEN /\ elapsed' = advance(elapsed, WifiDelayMs)
            /\ pc' = "wifi_wait"
       ELSE /\ elapsed' = elapsed
            /\ pc' = "wifi_ret"
  /\ UNCHANGED <<rtc, inbox, pins, rawAdc, locals, mqttConn, simIn, simSt, frame, hist>>

\* return WiFi.status() == WL_CONNECTED; String timestamp = "--".  The
\* loop timer is a local of the function: it is dead after the return.
WifiReturn ==
  /\ pc = "wifi_ret"
  /\ \E connected \in BOOLEAN :
       /\ wifiOK' = connected
       /\ pc' = IF connected THEN "time_sync" ELSE "mqtt_reset"
  /\ timestamp' = NoTimestamp
  /\ elapsed' = 0
  /\ UNCHANGED <<rtc, inbox, pins, rawAdc, vbat, pct, mqttOK, priceStr, balanceStr,
                 priceUsd, balanceBtc, mqttConn, simIn, simSt, frame,
                 hist>>

\* a variant that formats the time structure whether or not it was filled
makeTimestampAlways(ok, t) == t

\* makeTimestampOrFallback: "--" if getLocalTime fails, else the formatted
\* local time t
makeTimestampOrFallback(ok, t) == IF ok THEN t ELSE NoTimestamp

\* configTime, setenv, tzset, makeTimestampOrFallback
TimeSync ==
  /\ pc = "time_sync"
  /\ \E ok \in BOOLEAN, t \in Timestamps :
       /\ timestamp' = makeTimestampOrFallback(ok, t)
       /\ timeQuery' = IF ok THEN "ok" ELSE "failed"
  /\ netlog' = Log(netlog, "time")
  /\ pc' = "mqtt_reset"
  /\ UNCHANGED <<rtc, inbox, pins, rawAdc, vbat, pct, wifiOK, mqttOK, priceStr,
                 balanceStr, priceUsd, balanceBtc, mqttConn, elapsed, simIn,
                 simSt, frame, trace, polls, connects, subscribed, frames,
                 wakePrice, wakeBalance, msgPrice, msgBalance,
                 silentRun, heardPrice, heardBalance>>

(***************************************************************************)
(* setup(), MQTT part                                                      *)
(***************************************************************************)
\* mqttOK = false; the flags and the buffers are cleared; if (wifiOK) ...
MqttReset ==
  /\ pc = "mqtt_reset"
  /\ mqttOK' = FALSE
  /\ gotPrice' = FALSE /\ gotBalance' = FALSE
  /\ priceUsdBuf' = <<>> /\ balanceBtcBuf' = <<>>
  /\ netlog' = Log(netlog, "reset")
  /\ pc' = afterReset(wifiOK)
  /\ UNCHANGED <<rtc, pins, rawAdc, vbat, pct, wifiOK, timestamp, priceStr,
                 balanceStr, priceUsd, balanceBtc, mqttConn, elapsed, simIn,
                 simSt, frame, trace, polls, connects, subscribed, frames,
                 wakePrice, wakeBalance, msgPrice, msgBalance,
                 timeQuery, silentRun, heardPrice, heardBalance>>

\* connectMQTT: setServer, setCallback, start = millis()
MqttBegin ==
  /\ pc = "mqtt_begin"
  /\ elapsed' = 0
  /\ pc' = "mqtt_loop"
  /\ UNCHANGED <<rtc, inbox, pins, rawAdc, locals, mqttConn, simIn, simSt, frame, hist>>

\* one evaluation of the while condition of connectMQTT and, if it holds,
\* one connect attempt (break on success, delay(500) otherwise)
MqttTry ==
  /\ pc = "mqtt_loop"
  /\ IF ~mqttConn /\ elapsed < MqttTimeoutMs
     THEN \E ok \in BOOLEAN, c \in ConnectMs :
            /\ mqttConn' = ok
            /\ connects' = Count(connects)
            /\ netlog' = Log(netlog, "broker")
            /\ elapsed' = IF ok THEN advance(elapsed, c)
                           ELSE advance(elapsed, c + MqttDelayMs)
            /\ pc' = IF ok THEN "mqtt_check" ELSE "mqtt_loop"
     ELSE /\ pc' = "mqtt_check"
          /\ UNCHANGED <<mqttConn, connects, netlog, elapsed>>
  /\ UNCHANGED <<rtc, inbox, pins, rawAdc, locals, simIn, simSt, frame, trace, polls,
                 subscribed, frames, wakePrice, wakeBalance, msgPrice,
                 msgBalance,
                 timeQuery, silentRun, heardPrice, heardBalance>>

\* if (!mqttClient.connected()) return false; subscribe twice; return true
\* (the connection may have dropped since connect() returned)
MqttCheck ==
  /\ pc = "mqtt_check"
  /\ \E alive \in (IF mqttConn THEN BOOLEAN ELSE {FALSE}) :
       /\ mqttConn' = alive
       /\ mqttOK' = alive
       /\ subscribed' = IF alive THEN {TOPIC_PRICE_USD, TOPIC_BALANCE_BTC}
                        ELSE subscribed
       /\ netlog' = IF alive THEN Log(netlog, "subscribe") ELSE netlog
       /\ pc' = IF alive THEN "window_begin" ELSE "fallback"
  /\ elapsed' = 0
  /\ UNCHANGED <<rtc, inbox, pins, rawAdc, vbat, pct, wifiOK, timestamp, priceStr,
                 balanceStr, priceUsd, balanceBtc, simIn, simSt,
                 frame, trace, polls, connects, frames, wakePrice,
                 wakeBalance, msgPrice, msgBalance,
                 timeQuery, silentRun, heardPrice, heardBalance>>

\* if (mqttOK) { start = millis(); ...
WindowBegin ==
  /\ pc = "window_begin"
  /\ elapsed' = 0
  /\ pc' = "window"
  /\ UNCHANGED <<rtc, inbox, pins, rawAdc, locals, mqttConn, simIn, simSt, frame, hist>>

\* a variant without the length check of line 252
mqttCallbackNoGuard(st, topic, payload) ==
  IF topic = TOPIC_PRICE_USD
  THEN [st EXCEPT !.priceUsdBuf = safeCopy(payload), !.gotPrice = TRUE]
  ELSE IF topic = TOPIC_BALANCE_BTC
       THEN [st EXCEPT !.balanceBtcBuf = safeCopy(payload), !.gotBalance = TRUE]
  ELSE st

\* mqttCallback on the inbox st
mqttCallback(st, topic, payload) ==
  IF Len(payload) = 0 THEN st
  ELSE IF topic = TOPIC_PRICE_USD
       THEN [st EXCEPT !.priceUsdBuf = safeCopy(payload), !.gotPrice = TRUE]
  ELSE IF topic = TOPIC_BALANCE_BTC
       THEN [st EXCEPT !.balanceBtcBuf = safeCopy(payload), !.gotBalance = TRUE]
  ELSE st

Inbox ==
  [gotPrice |-> gotPrice, gotBalance |-> gotBalance,
   priceUsdBuf |-> priceUsdBuf, balanceBtcBuf |-> balanceBtcBuf]

\* the inbox after mqttClient.loop() has handled the deliveries ds (a
\* sequence of at most one message)
RECURSIVE Deliver(_, _)
Deliver(st, ds) ==
  IF ds = <<>> THEN st
  ELSE Deliver(mqttCallback(st, Head(ds)[1], Head(ds)[2]), Tail(ds))

Deliveries == {<<>>} \cup {<<msg>> : msg \in Messages}

\* one iteration of the servicing loop: mqttClient.loop(), delay(10), and
\* the break when both flags are set
Poll ==
  /\ pc = "window"
  /\ elapsed < WindowMs
  /\ \E alive \in (IF mqttConn THEN BOOLEAN ELSE {FALSE}),
        ds \in Deliveries, c \in LoopMs :
       LET in == IF alive THEN ds ELSE <<>>
           st == Deliver(Inbox, in)
       IN /\ mqttConn' = alive
          /\ gotPrice' = st.gotPrice /\ gotBalance' = st.gotBalance
          /\ priceUsdBuf' = st.priceUsdBuf /\ balanceBtcBuf' = st.balanceBtcBuf
          /\ msgPrice' = IF in /= <<>> /\ in[1][1] = TOPIC_PRICE_USD
                            /\ Len(in[1][2]) > 0
                         THEN in[1][2] ELSE msgPrice
          /\ msgBalance' = IF in /= <<>> /\ in[1][1] = TOPIC_BALANCE_BTC
                              /\ Len(in[1][2]) > 0
                           THEN in[1][2] ELSE msgBalance
          /\ elapsed' = IF windowDone(st.gotPrice, st.gotBalance) THEN 0
                         ELSE advance(elapsed, c + PollDelayMs)
          /\ pc' = IF windowDone(st.gotPrice, st.gotBalance) THEN "fallback"
                    ELSE "window"
  /\ silentRun' = IF msgPrice' /= NoMsg \/ msgBalance' /= NoMsg THEN Heard
                  ELSE silentRun
  /\ heardPrice' = IF msgPrice' /= NoMsg THEN msgPrice' ELSE heardPrice
  /\ heardBalance' = IF msgBalance' /= NoMsg THEN msgBalance' ELSE heardBalance
  /\ polls' = Count(polls)
  /\ netlog' = Log(netlog, "service")
  /\ UNCHANGED <<rtc, pins, rawAdc, locals, simIn, simSt, frame, trace, connects,
                 subscribed, frames, wakePrice, wakeBalance, timeQuery>>

\* the while condition of the servicing loop fails
WindowTimeout ==
  /\ pc = "window"
  /\ ~(elapsed < WindowMs)
  /\ elapsed' = 0
  /\ pc' = "fallback"
  /\ UNCHANGED <<rtc, inbox, pins, rawAdc, locals, mqttConn, simIn, simSt,
                 frame, hist>>

(***************************************************************************)
(* setup(), second part: fallback, simulation, render, persist, shutdown   *)
(***************************************************************************)
\* priceStr / balanceStr from the buffer or from RTC, parseFloatSafe of both,
\* usdWealth, and the arguments of computeLongevityWithInflation
Fallback ==
  /\ pc = "fallback"
  /\ LET ps == selectStr(gotPrice, priceUsdBuf, lastPriceUsd)
         bs == selectStr(gotBalance, balanceBtcBuf, lastBalanceBtc)
     IN /\ priceStr' = ps
        /\ balanceStr' = bs
        /\ priceUsd' = parseFloatSafe(ps)
        /\ balanceBtc' = parseFloatSafe(bs)
        /\ usdWealth' = FMul(parseFloatSafe(bs), parseFloatSafe(ps))
  /\ monthlyExpenseToday' = MONTHLY_EXP_USD
  /\ inflationAnnual' = INFLATION_ANNUAL
  /\ trace' = Append(trace, "Sanitize")
  /\ pc' = "sim_begin"
  /\ UNCHANGED <<rtc, inbox, pins, rawAdc, vbat, pct, wifiOK, timestamp,
                 mqttOK, mqttConn, elapsed, simSt, frame, netlog, polls,
                 connects, subscribed, frames, wakePrice, wakeBalance,
                 msgPrice, msgBalance,
                 timeQuery, silentRun, heardPrice, heardBalance>>

\* computeLongevityWithInflation up to the loop: outputs zeroed, the early
\* return, the inflation clamp, dailyMul, dailyExpenseBase, remaining, days
SimBegin ==
  /\ pc = "sim_begin"
  /\ outYears' = 0 /\ outMonths' = 0 /\ outWeeks' = 0
  /\ trace' = Append(trace, "Simulate")
  /\ IF earlyReturn(usdWealth, monthlyExpenseToday)
     THEN /\ pc' = "render"
          /\ UNCHANGED <<inflationAnnual, dailyMul, remaining, dailyExpense, days>>
     ELSE /\ inflationAnnual' = IF FLt(inflationAnnual, FZero) THEN FZero
                                ELSE inflationAnnual
          /\ dailyMul' = powf365(FAdd(FOne, inflationAnnual'))
          /\ dailyExpense' = FDiv(monthlyExpenseToday, FromInt(30))
          /\ remaining' = usdWealth
          /\ days' = 0
          /\ pc' = "sim_loop"
  /\ UNCHANGED <<rtc, inbox, pins, rawAdc, locals, mqttConn, elapsed,
                 usdWealth, monthlyExpenseToday, frame, netlog, polls,
                 connects, subscribed, frames, wakePrice, wakeBalance,
                 msgPrice, msgBalance,
                 timeQuery, silentRun, heardPrice, heardBalance>>

\* one iteration of while (days < MAX_DAYS) that does not break
SimDay ==
  /\ pc = "sim_loop"
  /\ loopGuard(days)
  /\ ~FLt(remaining, dailyExpense)
  /\ remaining' = FSub(remaining, dailyExpense)
  /\ dailyExpense' = FMul(dailyExpense, dailyMul)
  /\ days' = days + 1
  /\ UNCHANGED <<pc, rtc, inbox, pins, rawAdc, locals, mqttConn, elapsed,
                 simIn, dailyMul, outYears, outMonths, outWeeks, frame, hist>>

\* the loop ends (cap reached, or break) and days become years/months/weeks
SimEnd ==
  /\ pc = "sim_loop"
  /\ ~loopGuard(days) \/ FLt(remaining, dailyExpense)
  /\ outYears' = yearsOfDays(days)
  /\ outMonths' = monthsOfDays(days)
  /\ outWeeks' = weeksOfDays(days)
  /\ pc' = "render"
  /\ UNCHANGED <<rtc, inbox, pins, rawAdc, locals, mqttConn, elapsed, simIn,
                 dailyMul, remaining, dailyExpense, days, frame, hist>>

\* what drawFreedomClock prints
\* a variant that also prints the balance and the wealth
drawWithWealth(years, months, weeks, priceLong, p, ts) ==
  [years |-> years, months |-> months, weeks |-> weeks, price |-> priceLong,
   battery |-> IF p >= 0 THEN <<p, "%">> ELSE <<"--">>, timestamp |-> ts,
   balance |-> balanceBtc, wealth |-> usdWealth]

\* what drawFreedomClock prints: the three numbers, (long)btcPriceUsd, the
\* battery line and the timestamp; the parameter vbat is not used
drawFreedomClock(years, months, weeks, priceLong, p, ts) ==
  [years |-> years, months |-> months, weeks |-> weeks, price |-> priceLong,
   battery |-> IF p >= 0 THEN <<p, "%">> ELSE <<"--">>, timestamp |-> ts]

\* a variant that draws only when the broker was reached
RenderIfOnline ==
  /\ pc = "render"
  /\ IF mqttOK
     THEN /\ \E pl \in LongCast(priceUsd) :
               frame' = drawFreedomClock(outYears, outMonths, outWeeks, pl, pct,
                                         timestamp)
          /\ frames' = frames + 1
          /\ trace' = Append(trace, "Render")
     ELSE UNCHANGED <<frame, frames, trace>>
  /\ pc' = "persist"
  /\ UNCHANGED <<rtc, inbox, pins, rawAdc, locals, mqttConn, elapsed, simIn,
                 simSt, netlog, polls, connects, subscribed, wakePrice,
                 wakeBalance, msgPrice, msgBalance,
                 timeQuery, silentRun, heardPrice, heardBalance>>

Render ==
  /\ pc = "render"
  /\ \E pl \in LongCast(priceUsd) :
       frame' = drawFreedomClock(outYears, outMonths, outWeeks, pl, pct, timestamp)
  /\ frames' = frames + 1
  /\ trace' = Append(trace, "Render")
  /\ pc' = "persist"
  /\ UNCHANGED <<rtc, inbox, pins, rawAdc, locals, mqttConn, elapsed, simIn,
                 simSt, netlog, polls, connects, subscribed, wakePrice,
                 wakeBalance, msgPrice, msgBalance,
                 timeQuery, silentRun, heardPrice, heardBalance>>

\* if (gotPrice) strncpy(lastPriceUsd, ...); if (gotBalance) strncpy(...)
Persist ==
  /\ pc = "persist"
  /\ lastPriceUsd' = persistStr(gotPrice, priceUsdBuf, lastPriceUsd)
  /\ lastBalanceBtc' = persistStr(gotBalance, balanceBtcBuf, lastBalanceBtc)
  /\ trace' = Append(trace, "PersistIfUpdated")
  /\ pc' = "shutdown"
  /\ UNCHANGED <<lastBatteryVoltage, lastBatteryPercent, inbox, pins, rawAdc,
                 locals, mqttConn, elapsed, simIn, simSt, frame, netlog, polls,
                 connects, subscribed, frames, wakePrice, wakeBalance,
                 msgPrice, msgBalance,
                 timeQuery, silentRun, heardPrice, heardBalance>>

\* if (mqttClient.connected()) mqttClient.disconnect(); WiFi.disconnect(true)
Shutdown ==
  /\ pc = "shutdown"
  /\ mqttConn' = FALSE
  /\ trace' = Append(trace, "Shutdown")
  /\ pc' = "sleep_power"
  /\ UNCHANGED <<rtc, inbox, pins, rawAdc, locals, elapsed, simIn, simSt,
                 frame, netlog, polls, connects, subscribed, frames,
                 wakePrice, wakeBalance, msgPrice, msgBalance,
                 timeQuery, silentRun, heardPrice, heardBalance>>

\* a variant of goToSleep that leaves the display rail as it is
SleepKeepPower ==
  /\ pc = "sleep_power"
  /\ pc' = "sleep_timer"
  /\ UNCHANGED <<rtc, inbox, pins, rawAdc, locals, mqttConn, elapsed, simIn,
                 simSt, frame, hist>>

\* goToSleep: digitalWrite(PIN_EINK_POWER, LOW)
SleepPowerOff ==
  /\ pc = "sleep_power"
  /\ einkPower' = FALSE
  /\ pc' = "sleep_timer"
  /\ UNCHANGED <<rtc, inbox, adcCtrl, timerArmed, rawAdc, locals, mqttConn,
                 elapsed, simIn, simSt, frame, hist>>

\* goToSleep: esp_sleep_enable_timer_wakeup(sleep_us)
SleepArmTimer ==
  /\ pc = "sleep_timer"
  /\ timerArmed' = TRUE
  /\ trace' = Append(trace, "ScheduleNextWake")
  /\ pc' = "sleep_start"
  /\ UNCHANGED <<rtc, inbox, einkPower, adcCtrl, rawAdc, locals, mqttConn,
                 elapsed, simIn, simSt, frame, netlog, polls, connects,
                 subscribed, frames, wakePrice, wakeBalance, msgPrice,
                 msgBalance,
                 timeQuery, silentRun, heardPrice, heardBalance>>

\* goToSleep: esp_deep_sleep_start()
SleepStart ==
  /\ pc = "sleep_start"
  /\ trace' = Append(trace, "Suspend")
  /\ pc' = "suspended"
  /\ UNCHANGED <<rtc, inbox, pins, rawAdc, locals, mqttConn, elapsed, simIn,
                 simSt, frame, netlog, polls, connects, subscribed, frames,
                 wakePrice, wakeBalance, msgPrice, msgBalance,
                 timeQuery, silentRun, heardPrice, heardBalance>>

\* the wake timer fires: the chip resets, RTC memory survives, everything
\* else restarts from its initializer
Wake ==
  /\ pc = "suspended"
  /\ timerArmed
  /\ pc' = "boot"
  /\ UNCHANGED rtc
  /\ wakePrice' = lastPriceUsd /\ wakeBalance' = lastBalanceBtc
  /\ gotPrice' = bootFlag(gotPrice) /\ gotBalance' = bootFlag(gotBalance)
  /\ priceUsdBuf' = <<>> /\ balanceBtcBuf' = <<>>
  /\ einkPower' = FALSE /\ adcCtrl' = FALSE /\ timerArmed' = FALSE
  /\ rawAdc' = 0
  /\ vbat' = FZero /\ pct' = 0 /\ wifiOK' = FALSE /\ timestamp' = NoTimestamp
  /\ mqttOK' = FALSE /\ mqttConn' = FALSE /\ elapsed' = 0
  /\ priceStr' = <<>> /\ balanceStr' = <<>>
  /\ priceUsd' = FZero /\ balanceBtc' = FZero
  /\ usdWealth' = FZero /\ monthlyExpenseToday' = FZero /\ inflationAnnual' = FZero
  /\ dailyMul' = FZero /\ remaining' = FZero /\ dailyExpense' = FZero
  /\ days' = 0
  /\ outYears' = 0 /\ outMonths' = 0 /\ outWeeks' = 0
  /\ frame' = NoFrame
  /\ trace' = <<>> /\ netlog' = <<>> /\ polls' = 0 /\ connects' = 0
  /\ subscribed' = {} /\ frames' = 0
  /\ msgPrice' = NoMsg /\ msgBalance' = NoMsg
  /\ timeQuery' = "none"
  /\ silentRun' = IF silentRun = Heard THEN Heard ELSE CountCycle(silentRun)
  /\ UNCHANGED <<heardPrice, heardBalance>>

Acquire ==
  \/ WifiBegin \/ WifiWait \/ WifiReturn \/ TimeSync \/ MqttReset
  \/ MqttBegin \/ MqttTry \/ MqttCheck \/ WindowBegin \/ Poll \/ WindowTimeout

Simulate == SimBegin \/ SimDay \/ SimEnd

Next ==
  \/ PowerOnDisplay \/ DisplayBegin \/ BatteryGateOn \/ BatterySample \/ BatteryGateOff
  \/ Acquire \/ Fallback \/ Simulate \/ Render \/ Persist \/ Shutdown
  \/ SleepPowerOff \/ SleepArmTimer \/ SleepStart \/ Wake

Spec == Init /\ [][Next]_vars

TypeOK ==
  /\ pc \in {"boot", "display_begin", "battery", "adc_sample", "adc_off", "wifi_begin",
            "wifi_wait", "wifi_ret", "time_sync", "mqtt_reset", "mqtt_begin",
            "mqtt_loop", "mqtt_check", "window_begin", "window", "fallback",
            "sim_begin", "sim_loop", "render", "persist", "shutdown",
            "sleep_power", "sleep_timer", "sleep_start", "suspended"}
  /\ polls < MaxCount /\ connects < MaxCount

\* The processor keeps executing and an armed timer fires: steps of Next
\* keep happening.  Next is enabled in every reachable state (no reachable
\* state is a deadlock), so this condition is WF_vars(Next).
LiveSpec == Init /\ [][Next]_vars /\ []<><<Next>>_vars

(***************************************************************************)
(* computeLongevityWithInflation on its own: the arguments are drawn from  *)
(* bounded sets, the out-parameters hold arbitrary values at the call.     *)
(***************************************************************************)
SimWealths == {FZero, FromInt(-1), FromInt(10000), FromInt(121000)}
SimExpenses == {FZero, FromInt(-1), FromInt(10000)}
SimInflations == {FNeg(FHalf), FZero, INFLATION_ANNUAL}
Extreme == <<FMul(FromInt(1000000), FromInt(1000000)), RatRound(0, 1, 100), FZero>>
SimExtremes == {Extreme, <<FNaN, FromInt(10000), INFLATION_ANNUAL>>}
SimInputs == (SimWealths \X SimExpenses \X SimInflations) \cup SimExtremes
Garbage == 7

SimInit ==
  /\ pc = "sim_begin"
  /\ lastPriceUsd = Sentinel /\ lastBalanceBtc = Sentinel
  /\ lastBatteryVoltage = FZero /\ lastBatteryPercent = -1
  /\ wakePrice = Sentinel /\ wakeBalance = Sentinel
  /\ FreshRam
  /\ \E in \in SimInputs :
       /\ usdWealth = in[1]
       /\ monthlyExpenseToday = in[2]
       /\ inflationAnnual = in[3]
  /\ outYears = Garbage /\ outMonths = Garbage /\ outWeeks = Garbage
  /\ silentRun = 0
  /\ heardPrice = NoMsg /\ heardBalance = NoMsg

SimNext == SimBegin \/ SimDay \/ SimEnd

SimSpec == SimInit /\ [][SimNext]_vars

(***************************************************************************)
(* batteryPercentFromVoltage on its own: the argument is drawn from a      *)
(* bounded set of binary32 values, the result is held in pct.              *)
(***************************************************************************)
\* millivolt grid around the table
GridLo == 3150
GridHi == 4200
GridStep == 10
GridVoltages ==
  {RatRound(0, n, 1000) : n \in {k \in GridLo..GridHi : (k - GridLo) % GridStep = 0}}

\* the neighbours of a finite value with the same exponent
Ulps(x) == {Fin(x.s, x.m - 1, x.e), x, Fin(x.s, x.m + 1, x.e)}
AnchorVoltages == UNION {Ulps(voltTable[i]) : i \in 1..NUM_POINTS}

\* voltages whose interpolation lies next to a half: 3.711, 3.747, 3.8825
HalfVoltages ==
  {RatRound(0, 3711, 1000), RatRound(0, 3747, 1000), RatRound(0, 38825, 10000)}

SpecialVoltages ==
  {FZero, FromInt(-1), FromInt(5), FInf(0), FInf(1), FNaN}

\* what one ADC sample can give
SampleVoltages == {voltageFromRaw(raw) : raw \in RawSamples}

BatVoltages ==
  GridVoltages \cup AnchorVoltages \cup HalfVoltages \cup SpecialVoltages
    \cup SampleVoltages

BatInit ==
  /\ pc = "bat_call"
  /\ vbat \in BatVoltages
  /\ pct = -1
  /\ lastPriceUsd = Sentinel /\ lastBalanceBtc = Sentinel
  /\ lastBatteryVoltage = FZero /\ lastBatteryPercent = -1
  /\ wakePrice = Sentinel /\ wakeBalance = Sentinel
  /\ gotPrice = FALSE /\ gotBalance = FALSE
  /\ priceUsdBuf = <<>> /\ balanceBtcBuf = <<>>
  /\ einkPower = FALSE /\ adcCtrl = FALSE /\ timerArmed = FALSE
  /\ rawAdc = 0
  /\ wifiOK = FALSE /\ timestamp = NoTimestamp
  /\ mqttOK = FALSE /\ mqttConn = FALSE /\ elapsed = 0
  /\ priceStr = <<>> /\ balanceStr = <<>>
  /\ priceUsd = FZero /\ balanceBtc = FZero
  /\ usdWealth = FZero /\ monthlyExpenseToday = FZero /\ inflationAnnual = FZero
  /\ dailyMul = FZero /\ remaining = FZero /\ dailyExpense = FZero
  /\ days = 0 /\ outYears = 0 /\ outMonths = 0 /\ outWeeks = 0
  /\ frame = NoFrame
  /\ trace = <<>> /\ netlog = <<>> /\ polls = 0 /\ connects = 0
  /\ subscribed = {} /\ frames = 0
  /\ msgPrice = NoMsg /\ msgBalance = NoMsg
  /\ timeQuery = "none"
  /\ silentRun = 0
  /\ heardPrice = NoMsg /\ heardBalance = NoMsg

\* int pct = batteryPercentFromVoltage(vbat)
BatApply ==
  /\ pc = "bat_call"
  /\ pct' = batteryPercentFromVoltage(vbat)
  /\ pc' = "bat_ret"
  /\ UNCHANGED <<rtc, inbox, pins, rawAdc, vbat, wifiOK, timestamp, mqttOK,
                 priceStr, balanceStr, priceUsd, balanceBtc, mqttConn, elapsed,
                 simIn, simSt, frame, hist>>

BatNext == BatApply

BatSpec == BatInit /\ [][BatNext]_vars

(***************************************************************************)
(* Properties                                                              *)
(***************************************************************************)
AfterFallback ==
  {"sim_begin", "sim_loop", "render", "persist", "shutdown", "sleep_power",
   "sleep_timer", "sleep_start", "suspended"}

\* the first 15 bytes of a delivered payload
Truncated(raw) == [i \in 1..(IF Len(raw) < 15 THEN Len(raw) ELSE 15) |-> raw[i]]

\* the text a buffer holds after a payload was copied into it: the first 15
\* bytes, up to the first zero byte if there is one
Stored(raw) == CStr(Truncated(raw))

\* C1: a retained text differs from its value at wake only if a message on
\* its own topic was received in this cycle; the two fields are independent.
C1_RetainedOnlyIfReceived ==
  /\ msgPrice = NoMsg => lastPriceUsd = wakePrice
  /\ msgBalance = NoMsg => lastBalanceBtc = wakeBalance

\* a completed cycle that received only the balance, after one that had
\* stored a price
C1_Witness ==
  /\ pc = "suspended"
  /\ msgPrice = NoMsg /\ msgBalance /= NoMsg
  /\ wakePrice /= Sentinel /\ lastPriceUsd = wakePrice
  /\ lastBalanceBtc /= wakeBalance

\* C2: for each value independently, the text that is parsed and fed to the
\* simulation is the stored payload of this cycle if its flag is set, and the
\* text retained before the cycle otherwise.
C2_FreshOrRetained ==
  pc \in AfterFallback =>
    /\ priceStr = IF gotPrice /\ msgPrice /= NoMsg THEN Stored(msgPrice)
                  ELSE wakePrice
    /\ balanceStr = IF gotBalance /\ msgBalance /= NoMsg THEN Stored(msgBalance)
                    ELSE wakeBalance
    /\ priceUsd = parseFloatSafe(priceStr)
    /\ balanceBtc = parseFloatSafe(balanceStr)
    /\ usdWealth = FMul(balanceBtc, priceUsd)

\* partial data: a fresh balance mixed with a retained, non-sentinel price
C2_Witness ==
  /\ pc = "render"
  /\ ~gotPrice /\ gotBalance
  /\ wakePrice /= Sentinel /\ priceStr = wakePrice
  /\ balanceStr = <<"2">> /\ wakeBalance /= <<"2">>

\* C3: every wake cycle reaches the suspended state.
C3_CycleTerminates == (pc = "boot") ~> (pc = "suspended")

\* a cycle that ran the servicing window to its timeout and then suspended
C3_Witness ==
  /\ pc = "suspended"
  /\ mqttOK /\ polls > 0 /\ ~(gotPrice /\ gotBalance)

FullPath ==
  <<"PowerOnDisplay", "MeasureBattery", "AcquireNetwork", "Sanitize",
    "Simulate", "Render", "PersistIfUpdated", "Shutdown", "ScheduleNextWake",
    "Suspend">>

IsPrefix(a, b) == Len(a) <= Len(b) /\ a = SubSeq(b, 1, Len(a))

\* C4: the steps of a cycle are taken in the one fixed order, none repeated
\* or skipped; the frame is drawn exactly once per cycle, before any write to
\* a retained text; the device suspends with the timer armed.
C4_LinearPath ==
  /\ IsPrefix(trace, FullPath)
  /\ frames <= 1
  /\ (lastPriceUsd /= wakePrice \/ lastBalanceBtc /= wakeBalance) => frames = 1
  /\ pc = "suspended" =>
       trace = FullPath /\ frames = 1 /\ frame /= NoFrame /\ timerArmed

\* a cycle without WiFi that drew its frame and suspended
C4_Witness ==
  /\ pc = "suspended"
  /\ ~wifiOK /\ frames = 1 /\ timerArmed

BrokerOps == {"broker", "subscribe", "service"}

\* C5 as stated: every network operation of a cycle, the WiFi connection
\* and the time query included, comes after the reset of the flags and the
\* buffers in that cycle.
C5_ResetBeforeAnyNetworkOp ==
  \A i \in 1..Len(netlog) :
    netlog[i] /= "reset" => \E j \in 1..(i - 1) : netlog[j] = "reset"

\* C5 (amended): the reset in setup() comes after the WiFi connection and the
\* time query and before the broker connection, the subscriptions and the
\* servicing; until the first poll of a cycle the flags are false and the
\* buffers empty, as loaded at the reset that starts the cycle.
C5_ResetBeforeBroker ==
  /\ \A i \in 1..Len(netlog) :
       /\ netlog[i] \in BrokerOps => \E j \in 1..(i - 1) : netlog[j] = "reset"
       /\ netlog[i] = "reset" =>
            \A j \in 1..(i - 1) : netlog[j] \in {"wifi", "time"}
  /\ polls = 0 =>
       /\ ~gotPrice /\ ~gotBalance
       /\ priceUsdBuf = <<>> /\ balanceBtcBuf = <<>>

\* the broker connection of a cycle that follows one which received both
C5_Witness ==
  /\ netlog = <<"wifi", "time", "reset", "broker">>
  /\ wakePrice /= Sentinel /\ wakeBalance /= Sentinel
  /\ polls = 0 /\ ~gotPrice /\ ~gotBalance

\* C6: a broker connection is attempted only with WiFi up; the two
\* subscriptions, exactly these, only after a broker attempt and with the
\* broker connected; messages are serviced only after that; without WiFi
\* there is no broker attempt, subscription or poll and both flags stay false.
C6_NetworkGating ==
  /\ connects > 0 => wifiOK
  /\ subscribed \in {{}, {TOPIC_PRICE_USD, TOPIC_BALANCE_BTC}}
  /\ subscribed /= {} => connects > 0 /\ mqttOK
  /\ polls > 0 => mqttOK /\ subscribed /= {}
  /\ mqttOK => subscribed /= {}
  /\ ~wifiOK =>
       /\ connects = 0 /\ subscribed = {} /\ polls = 0
       /\ ~gotPrice /\ ~gotBalance
       /\ \A i \in 1..Len(netlog) : netlog[i] \notin BrokerOps

\* a cycle that failed to get WiFi and went through to suspension
C6_Witness ==
  /\ pc = "suspended"
  /\ ~wifiOK /\ connects = 0 /\ polls = 0
  /\ wakePrice /= Sentinel

\* C7: once both flags are set no further poll happens in the cycle; the
\* window is left with a flag still false only at its timeout.
C7_EarlyExit ==
  [][/\ (gotPrice /\ gotBalance /\ pc /= "suspended") => polls' = polls
     /\ (pc = "window" /\ pc' /= "window" /\ ~(gotPrice' /\ gotBalance'))
          => elapsed >= WindowMs]_vars

\* both values arrived in the first two polls and the window was left
C7_Witness ==
  /\ pc = "fallback"
  /\ gotPrice /\ gotBalance /\ polls = 2

NonPositive(x) == FLe(x, FZero)

\* C8: with wealth <= 0 or monthly expense <= 0 the function returns at once
\* with years = months = weeks = 0, whatever the other arguments are.
C8_ZeroOnNonPositive ==
  (NonPositive(usdWealth) \/ NonPositive(monthlyExpenseToday)) =>
    /\ pc /= "sim_loop"
    /\ pc = "render" => outYears = 0 /\ outMonths = 0 /\ outWeeks = 0

\* positive wealth, zero expense, returned
C8_Witness ==
  /\ pc = "render"
  /\ usdWealth = FromInt(10000) /\ monthlyExpenseToday = FZero
  /\ outYears = 0 /\ outMonths = 0 /\ outWeeks = 0

\* C9: the result has years >= 0, months in 0..11 and weeks in 0..4.
C9_ResultRanges ==
  pc = "render" => outYears >= 0 /\ outMonths \in 0..11 /\ outWeeks \in 0..4

\* C10: the loop runs at most MAX_DAYS times, so years <= 200; when the loop
\* ends without the wealth having fallen below the daily expense the result
\* is 200 years, as for wealth 1e12, expense 0.01, inflation 0.
C10_Cap ==
  /\ days <= MAX_DAYS
  /\ pc = "render" => outYears <= 200
  /\ (/\ pc = "render"
      /\ ~NonPositive(usdWealth) /\ ~NonPositive(monthlyExpenseToday)
      /\ ~FLt(remaining, dailyExpense))
       => outYears = 200 /\ outMonths = 0 /\ outWeeks = 0
  /\ (pc = "render" /\ <<usdWealth, monthlyExpenseToday, inflationAnnual>> = Extreme)
       => outYears = 200

\* the extreme input has run into the cap
C10_Witness ==
  /\ pc = "render"
  /\ <<usdWealth, monthlyExpenseToday, inflationAnnual>> = Extreme
  /\ days = MAX_DAYS /\ outYears = 200

\* C11: with zero inflation the day counter is the number of whole daily
\* expenses that fit into the wealth; in particular wealth 10000, monthly
\* expense 10000, inflation 0 gives 30 days, that is (0, 1, 0).
C11_ThirtyDays ==
  (/\ pc = "render"
   /\ usdWealth = FromInt(10000) /\ monthlyExpenseToday = FromInt(10000)
   /\ inflationAnnual = FZero)
    => days = 30 /\ outYears = 0 /\ outMonths = 1 /\ outWeeks = 0

\* the anchor points (voltage, percent) of the battery curve
Anchors ==
  <<<<RatRound(0, 320, 100), 0>>, <<RatRound(0, 330, 100), 2>>,
    <<RatRound(0, 360, 100), 25>>, <<RatRound(0, 375, 100), 50>>,
    <<RatRound(0, 385, 100), 70>>, <<RatRound(0, 395, 100), 90>>,
    <<RatRound(0, 405, 100), 97>>, <<RatRound(0, 415, 100), 100>>>>

\* a voltage in [2, 8) as a multiple of 2^-22
Ticks(x) == x.m * Pow2(x.e + 22)

\* p minus the exact interpolation at t between (t1, p1) and (t2, p2), in
\* units of 1 / (t2 - t1) percent
InterpDiff(t, t1, t2, p1, p2, p) ==
  p * (t2 - t1) - (p1 * (t2 - t1) + (t - t1) * (p2 - p1))

Abs(n) == IF n < 0 THEN -n ELSE n

\* p is an integer nearest to the exact interpolation of segment i at v, a
\* thousandth of a percent being allowed for the binary32 evaluation
NearestPercent(v, i, p) ==
  2 * Abs(InterpDiff(Ticks(v), Ticks(Anchors[i][1]), Ticks(Anchors[i + 1][1]),
                     Anchors[i][2], Anchors[i + 1][2], p))
    <= (Ticks(Anchors[i + 1][1]) - Ticks(Anchors[i][1]))
         + (Ticks(Anchors[i + 1][1]) - Ticks(Anchors[i][1])) \div 1000

\* C12: batteryPercentFromVoltage returns 0 for every voltage <= 3.20, 100
\* for every voltage >= 4.15, the anchor's percent at each anchor voltage,
\* and between two adjacent anchors the linear interpolation rounded to the
\* nearest integer.
C12_ClampAnchorsInterp ==
  pc = "bat_ret" =>
    /\ FLe(vbat, Anchors[1][1]) => pct = 0
    /\ FGe(vbat, Anchors[8][1]) => pct = 100
    /\ \A i \in 1..8 : vbat = Anchors[i][1] => pct = Anchors[i][2]
    /\ \A i \in 1..7 :
         (FLt(Anchors[i][1], vbat) /\ FLt(vbat, Anchors[i + 1][1]))
           => NearestPercent(vbat, i, pct)

\* 3.747 V, between the anchors 3.60 and 3.75, gives 50
C12_Witness ==
  /\ pc = "bat_ret"
  /\ vbat = RatRound(0, 3747, 1000)
  /\ pct = 50

\* C13: batteryPercentFromVoltage is monotonic non-decreasing, and its
\* result is an integer in 0..100.
C13_MonotonicBounded ==
  pc = "bat_ret" =>
    /\ pct \in 0..100
    /\ \A w \in BatVoltages :
         FLe(w, vbat) => batteryPercentFromVoltage(w) <= pct

\* 3.70 V gives 42, more than the 40 of 3.69 V
C13_Witness ==
  /\ pc = "bat_ret"
  /\ vbat = RatRound(0, 3700, 1000) /\ pct = 42
  /\ batteryPercentFromVoltage(RatRound(0, 3690, 1000)) = 40

\* C14: the display rail is on whenever a display operation (display.begin,
\* the drawing of the frame) is about to run and is on nowhere outside the
\* stretch from power-on to goToSleep; the analog control line is on when
\* the sample is taken and only from the gate-on to the gate-off around it;
\* in the suspended state both lines are off.
C14_RailsScoped ==
  /\ pc \in {"display_begin", "render"} => einkPower
  /\ frames > 0 => pc \notin {"boot", "display_begin"}
  /\ pc = "adc_sample" => adcCtrl
  /\ adcCtrl => pc \in {"adc_sample", "adc_off"}
  /\ einkPower => pc \notin {"boot", "sleep_timer", "sleep_start", "suspended"}
  /\ pc = "suspended" => ~einkPower /\ ~adcCtrl

\* suspended after a cycle that sampled the battery and drew its frame
C14_Witness ==
  /\ pc = "suspended"
  /\ rawAdc = 950 /\ frames = 1
  /\ ~einkPower /\ ~adcCtrl

\* C15: the balance and the wealth are never drawn: the frame consists of
\* the years, months and weeks, the price truncated to an integer, the
\* battery percent and the timestamp, and of nothing else, so that cycles
\* that agree on these six values show the same frame whatever their
\* balance and wealth are.
C15_FrameOnlySix ==
  frames > 0 =>
    /\ DOMAIN frame = {"years", "months", "weeks", "price", "battery", "timestamp"}
    /\ frame.years = outYears /\ frame.months = outMonths
    /\ frame.weeks = outWeeks
    /\ frame.price \in LongCast(priceUsd)
    /\ frame.battery = (IF pct >= 0 THEN <<pct, "%">> ELSE <<"--">>)
    /\ frame.timestamp = timestamp

\* a cycle with balance 2 and an unparsable price draws the frame of a
\* cycle with balance 0: (0, 0, 0) and price 0
C15_Witness ==
  /\ pc = "persist"
  /\ balanceBtc = FromInt(2) /\ priceUsd = FZero /\ priceStr = <<"a", "b", "c">>
  /\ frame = [years |-> 0, months |-> 0, weeks |-> 0, price |-> 0,
              battery |-> <<pct, "%">>, timestamp |-> timestamp]

\* the positions of setup() after the call of drawFreedomClock
AfterRender ==
  pc \in {"persist", "shutdown", "sleep_power", "sleep_timer", "sleep_start",
          "suspended"}

\* C16: the time source is queried only in a cycle whose WiFi connection
\* succeeded; whenever WiFi failed or the time query failed the drawn
\* timestamp is the placeholder "--"; and a failed time query does not keep
\* the frame from being drawn: the cycle goes on to draw it.
C16_TimeFailureTolerated ==
  /\ [](/\ timeQuery /= "none" => wifiOK
        /\ "time" \in {netlog[i] : i \in 1..Len(netlog)} => wifiOK
        /\ (frames > 0 /\ (~wifiOK \/ timeQuery = "failed"))
             => frame.timestamp = NoTimestamp
        /\ (AfterRender /\ timeQuery = "failed") => frames = 1)
  /\ (timeQuery = "failed" ~> frames = 1)

\* a cycle whose WiFi connected and whose time query failed has drawn its
\* frame, with the placeholder
C16_Witness ==
  /\ pc = "persist"
  /\ wifiOK /\ timeQuery = "failed"
  /\ frames = 1 /\ frame.timestamp = NoTimestamp

\* C17: from first power-on, in every one of any number of consecutive
\* cycles without a message on either topic, the price and the balance are
\* 0, the duration is (0, 0, 0), and the retained price and balance texts
\* stay the sentinel "--".
C17_SilentFromPowerOn ==
  silentRun /= Heard =>
    /\ lastPriceUsd = Sentinel /\ lastBalanceBtc = Sentinel
    /\ pc \in AfterFallback =>
         /\ priceStr = Sentinel /\ balanceStr = Sentinel
         /\ priceUsd = FZero /\ balanceBtc = FZero /\ usdWealth = FZero
    /\ (pc = "render" \/ AfterRender) =>
         outYears = 0 /\ outMonths = 0 /\ outWeeks = 0
    /\ frames > 0 =>
         /\ frame.years = 0 /\ frame.months = 0 /\ frame.weeks = 0
         /\ frame.price = 0

\* the third silent cycle in a row since power-on, completed
C17_Witness ==
  /\ pc = "suspended"
  /\ silentRun = 2
  /\ priceUsd = FZero /\ balanceBtc = FZero
  /\ frame.years = 0 /\ frame.months = 0 /\ frame.weeks = 0
  /\ lastPriceUsd = Sentinel /\ lastBalanceBtc = Sentinel

\* the positions of setup() after the two strncpy of lines 372-379
AfterPersist ==
  pc \in {"shutdown", "sleep_power", "sleep_timer", "sleep_start", "suspended"}

\* a step of the servicing loop in which no message with a payload arrived
\* on either topic changes no flag, no buffer and no retained text
QuietPollChangesNothing ==
  [][(pc = "window" /\ msgPrice' = msgPrice /\ msgBalance' = msgBalance
        /\ heardPrice' = heardPrice /\ heardBalance' = heardBalance)
      => UNCHANGED <<inbox, rtc>>]_vars

\* C18 as stated: once a cycle that received a message on a topic has
\* persisted, and until the next message on it, the retained text is the
\* first 15 characters of the last payload delivered on that topic; it is
\* the sentinel while no message was ever delivered on it; a zero-length
\* payload or a message on another topic changes no flag, buffer or
\* retained text.
C18_RetainedIsTruncatedPayload ==
  /\ []((msgPrice = NoMsg \/ AfterPersist) =>
          lastPriceUsd = (IF heardPrice = NoMsg THEN Sentinel
                          ELSE Truncated(heardPrice)))
  /\ []((msgBalance = NoMsg \/ AfterPersist) =>
          lastBalanceBtc = (IF heardBalance = NoMsg THEN Sentinel
                            ELSE Truncated(heardBalance)))
  /\ QuietPollChangesNothing

\* C18, amended: the same with the retained text being the first 15 bytes
\* of the last payload cut at its first zero byte, if it has one: the text
\* is stored and copied as a C string.
C18_RetainedIsStoredText ==
  /\ []((msgPrice = NoMsg \/ AfterPersist) =>
          lastPriceUsd = (IF heardPrice = NoMsg THEN Sentinel
                          ELSE Stored(heardPrice)))
  /\ []((msgBalance = NoMsg \/ AfterPersist) =>
          lastBalanceBtc = (IF heardBalance = NoMsg THEN Sentinel
                            ELSE Stored(heardBalance)))
  /\ QuietPollChangesNothing

\* a completed cycle in which the non-numeric payload "abc" replaced the
\* retained "1200", with the balance topic silent since power-on
C18_Witness ==
  /\ pc = "suspended"
  /\ wakePrice = <<"1", "2", "0", "0">>
  /\ msgPrice = <<"a", "b", "c">> /\ lastPriceUsd = <<"a", "b", "c">>
  /\ heardBalance = NoMsg /\ lastBalanceBtc = Sentinel

\* C19: in a cycle that received a value, the text written to the retained
\* state is the text that was parsed, fed to the simulation and drawn as
\* the price; flags and buffers change only in the servicing window (and at
\* the clearing before it), never between the fallback selection and the
\* persistence step.
C19_PersistedIsParsed ==
  /\ []((AfterPersist /\ gotPrice) =>
          /\ lastPriceUsd = priceStr
          /\ priceUsd = parseFloatSafe(lastPriceUsd)
          /\ frame.price \in LongCast(parseFloatSafe(lastPriceUsd)))
  /\ []((AfterPersist /\ gotBalance) =>
          /\ lastBalanceBtc = balanceStr
          /\ balanceBtc = parseFloatSafe(lastBalanceBtc))
  /\ []((AfterPersist /\ (gotPrice \/ gotBalance)) =>
          usdWealth = FMul(parseFloatSafe(IF gotBalance THEN lastBalanceBtc
                                          ELSE wakeBalance),
                           parseFloatSafe(IF gotPrice THEN lastPriceUsd
                                          ELSE wakePrice)))
  /\ [][(pc \in {"fallback", "sim_begin", "sim_loop", "render", "persist"})
          => UNCHANGED inbox]_vars

\* a completed cycle that received the 19-byte price payload: its first 15
\* bytes were parsed to 1200.5, drawn as 1200, and retained
C19_Witness ==
  /\ pc = "suspended"
  /\ gotPrice /\ Len(msgPrice) = 19
  /\ Len(priceStr) = 15 /\ lastPriceUsd = priceStr
  /\ frame.price = 1200

\* the positions of setup() before the battery percent is computed
BeforeBattery ==
  pc \in {"boot", "display_begin", "battery", "adc_sample", "adc_off"}

\* C20: the battery percent handed to drawFreedomClock, and the retained
\* lastBatteryPercent after a completed cycle, lie in 0..100 and are never
\* the sentinel -1; the frame never shows the battery placeholder "--".
C20_BatteryAlwaysKnown ==
  /\ ~BeforeBattery =>
       /\ pct \in 0..100
       /\ lastBatteryPercent = pct
  /\ pc = "suspended" => lastBatteryPercent \in 0..100
  /\ frames > 0 => frame.battery = <<pct, "%">> /\ frame.battery /= <<"--">>

\* the first cycle after power-on, with a raw sample of 0 (0 V), has drawn
\* "0%" and retained 0 in place of the initial -1
C20_Witness ==
  /\ pc = "suspended"
  /\ silentRun = 0 /\ rawAdc = 0
  /\ frame.battery = <<0, "%">>
  /\ lastBatteryPercent = 0

====
